---- MODULE Spec2Model ----
(***************************************************************************)
(* HplHandler.read (src/pipeline/filehandlers.py): the decoder of a Halo   *)
(* lidar *.hpl text file.  One behaviour of the model is one call of read  *)
(* on one file: the 17 header/label lines of the file are fixed in Init,   *)
(* the record lines are supplied by the environment one readline() at a    *)
(* time.  Every action is one statement (or one loop iteration) of read,   *)
(* and a Python exception ends the call in pc = "raised" with the          *)
(* exception's type and the source line that raised it.                    *)
(*                                                                         *)
(* Numbers: a float is NaN or an exact rational n/d (binary rounding of    *)
(* float64 is not modelled).  A microsecond count is kept as a pair        *)
(* seconds/microseconds because it does not fit TLC's 32-bit integers.     *)
(***************************************************************************)
EXTENDS Integers, Sequences, FiniteSets, TLC

\* ------------------------------------------------------------------ bounds
\* Capacity of the record buffers in the model (max_len, 10000 in the code).
MaxLen == 3
\* Largest `Number of gates` a header of the model declares.
MaxGates == 2

\* ------------------------------------------------------------------ tokens
\* A token is a piece of text of a line: s is the text, k what the text is
\* (an integer literal, a decimal literal of value n/d, the text "nan", or
\* any other word), n/d the value of a numeric literal.
IntTok(s, v) == [s |-> s, k |-> "int", n |-> v, d |-> 1]
DecTok(s, n, d) == [s |-> s, k |-> "dec", n |-> n, d |-> d]
NanTok == [s |-> "nan", k |-> "nan", n |-> 0, d |-> 1]
Word(s) == [s |-> s, k |-> "word", n |-> 0, d |-> 1]

\* A float value: NaN or the rational n/d.
NaN == [nan |-> TRUE, n |-> 0, d |-> 1]
Num(n, d) == [nan |-> FALSE, n |-> n, d |-> d]

\* Python float(text): accepts integer and decimal literals and "nan",
\* raises ValueError on anything else.
float_ok(t) == t.k \in {"int", "dec", "nan"}
float(t) == IF t.k = "nan" THEN NaN ELSE Num(t.n, t.d)

\* Python int(text): accepts integer literals only ("2.5", "nan" and words
\* raise ValueError).
int_ok(t) == t.k = "int"
int(t) == t.n

\* np.isnan
isnan(x) == x.nan

\* ------------------------------------------------------------------- lines
\* A line of the file, given by its two splits: colon = line.split(':'),
\* ws = line.split().
HeaderLine(fields) == [colon |-> fields, ws |-> fields]
RecordLine(tokens) == [colon |-> <<Word("record line")>>, ws |-> tokens]
\* A blank line, or readline() at the end of the stream: no tokens.
EmptyLine == [colon |-> <<Word("")>>, ws |-> <<>>]

KeyGates == "Number of gates"
KeyRgl == "Range gate length (m)"
KeyStart == "Start time"

\* The characters of the texts the code slices by position.
Chars(s) ==
    IF s = "\t20210315 13"
    THEN <<"\t", "2", "0", "2", "1", "0", "3", "1", "5", " ", "1", "3">>
    ELSE IF s = "Start time"
    THEN <<"S", "t", "a", "r", "t", " ", "t", "i", "m", "e">>
    ELSE <<>>

\* Header fields of the model's files.  "absent" stands for a header that
\* does not hold the field: its line holds another field instead.
GatesFields ==
    {IntTok("-1", -1), DecTok("2.5", 5, 2), Word("absent")}
        \cup {IntTok(ToString(g), g) : g \in 0..MaxGates}
RglFields == {DecTok("30.0", 30, 1), Word("thirty"), Word("absent")}
StartFields == {Word("\t20210315 13"), Word("absent")}

GatesLine(g) ==
    IF g = Word("absent") THEN HeaderLine(<<Word("Gate length (pts)"), IntTok("10", 10)>>)
    ELSE HeaderLine(<<Word(KeyGates), g>>)
RglLine(r) ==
    IF r = Word("absent") THEN HeaderLine(<<Word("Pulses/ray"), IntTok("10000", 10000)>>)
    ELSE HeaderLine(<<Word(KeyRgl), r>>)
\* "Start time:\t20210315 13:05:22.15" splits on ':' into four fields.
StartLine(s) ==
    IF s = Word("absent") THEN HeaderLine(<<Word("Focus range"), IntTok("65535", 65535)>>)
    ELSE HeaderLine(<<Word(KeyStart), s, IntTok("05", 5), DecTok("22.15", 2215, 100)>>)

LabelLine == HeaderLine(<<Word("label")>>)

\* The first 17 lines of a file: 11 header lines and 6 label lines.
Header(g, r, s) ==
    << HeaderLine(<<Word("Filename"), Word("Stare_91_20210315_13.hpl")>>),
       HeaderLine(<<Word("System ID"), IntTok("91", 91)>>),
       GatesLine(g),
       RglLine(r),
       HeaderLine(<<Word("Gate length (pts)"), IntTok("10", 10)>>),
       HeaderLine(<<Word("Pulses/ray"), IntTok("10000", 10000)>>),
       HeaderLine(<<Word("No. of rays in file"), IntTok("1", 1)>>),
       HeaderLine(<<Word("Scan type"), Word("Stare")>>),
       HeaderLine(<<Word("Focus range"), IntTok("65535", 65535)>>),
       StartLine(s),
       HeaderLine(<<Word("Resolution (m/s)"), DecTok("0.0382", 382, 10000)>>),
       LabelLine, LabelLine, LabelLine, LabelLine, LabelLine, LabelLine >>

GoodRgl == DecTok("30.0", 30, 1)
GoodStart == Word("\t20210315 13")

\* Header lines of other shapes: a line without a colon; a line whose
\* second field is the text 'Start time'; a line whose first field only
\* starts with that text.
NoColonLine == HeaderLine(<<Word("no colon in this line")>>)
MarkerSecondLine == HeaderLine(<<Word("Comment"), Word(KeyStart), Word("x")>>)
MarkerPrefixLine ==
    HeaderLine(<<Word("Start time (UTC)"), GoodStart, IntTok("05", 5),
                 DecTok("22.15", 2215, 100)>>)
SystemLine == HeaderLine(<<Word("System ID"), IntTok("91", 91)>>)

\* A one-gate file's first 17 lines with the given second line, start time
\* line and first label line.
HeaderOf(second, start, label) ==
    [p \in 1..17 |->
        IF p = 2 THEN second
        ELSE IF p = 10 THEN start
        ELSE IF p = 12 THEN label
        ELSE Header(IntTok("1", 1), GoodRgl, GoodStart)[p]]

\* Files whose header or label lines are unusual: a header line without a
\* colon, the two other start time lines, and a first label line that
\* reads like a `Number of gates` field or is blank.
OddHeaders ==
    { HeaderOf(NoColonLine, StartLine(GoodStart), LabelLine),
      HeaderOf(SystemLine, MarkerSecondLine, LabelLine),
      HeaderOf(SystemLine, MarkerPrefixLine, LabelLine),
      HeaderOf(SystemLine, StartLine(GoodStart), GatesLine(IntTok("2", 2))),
      HeaderOf(SystemLine, StartLine(GoodStart), EmptyLine) }

\* The headers of the model's files: every gates field with a good rest,
\* every other field varied in a one-gate file, and the unusual ones.
Headers ==
    {Header(g, GoodRgl, GoodStart) : g \in GatesFields}
        \cup {Header(IntTok("1", 1), r, s) : r \in RglFields, s \in StartFields}
        \cup OddHeaders

\* --------------------------------------------------------- record lines
\* The lines the environment can supply after the header.  A scalar line is
\* "time azimuth elevation pitch roll"; the time is one of TimeToks.
TimeToks == {DecTok("13.5", 27, 2), DecTok("-0.285714", -2, 7), NanTok}
AzTok == DecTok("180.0", 180, 1)
ElTok == DecTok("5.0", 5, 1)
PitchTok == DecTok("0.1", 1, 10)
RollTok == DecTok("-0.1", -1, 10)

ScalarLine(t) == RecordLine(<<t, AzTok, ElTok, PitchTok, RollTok>>)
\* A scalar line cut after its fourth token, and a line of text.
ShortScalarLine == RecordLine(<<DecTok("13.5", 27, 2), AzTok, ElTok, PitchTok>>)
GarbageLine == RecordLine(<<Word("garbage")>>)
ScalarChoices ==
    {ScalarLine(t) : t \in TimeToks} \cup {ShortScalarLine, GarbageLine, EmptyLine}

\* The decimal text of n tenths ("1.2" for 12).
Tenths(n) ==
    (IF n < 0 THEN "-" ELSE "")
        \o ToString((IF n < 0 THEN 0 - n ELSE n) \div 10) \o "."
        \o ToString((IF n < 0 THEN 0 - n ELSE n) % 10)

\* A gate line "g doppler intensity beta" declaring gate g; the three values
\* differ from each other and from those of every other gate ("0 1.2 3.4
\* 5.6", "1 2.2 4.4 6.6", ...).
DopplerTok(g) == DecTok(Tenths(12 + 10 * g), 12 + 10 * g, 10)
IntensityTok(g) == DecTok(Tenths(34 + 10 * g), 34 + 10 * g, 10)
BetaTok(g) == DecTok(Tenths(56 + 10 * g), 56 + 10 * g, 10)
GateLine(g) == RecordLine(<<IntTok(ToString(g), g), DopplerTok(g), IntensityTok(g), BetaTok(g)>>)
\* A gate line cut after its third token.
ShortGateLine(g) == RecordLine(<<IntTok(ToString(g), g), DopplerTok(g), IntensityTok(g)>>)
\* The orders in which the gate lines of an n-gate group that decodes
\* declare their indices (the index declared by line 1..n): ascending,
\* descending, and ascending with the last gate counted from the end (-1).
GroupOrders(n) ==
    { [j \in 1..n |-> j - 1],
      [j \in 1..n |-> n - j],
      [j \in 1..n |-> IF j = n THEN -1 ELSE j - 1] }
\* The lines the environment can supply in iteration i of an n-gate group
\* whose lines so far declared `declared`: the next line of every order
\* that starts so, a line declaring an index out of range on either side,
\* a short line, and the empty line.
GateChoices(i, n, declared) ==
    {GateLine(order[i + 1]) :
        order \in {o \in GroupOrders(n) : \A h \in 1..i : o[h] = declared[h]}}
        \cup {GateLine(n), GateLine(0 - n - 1), ShortGateLine(i), EmptyLine}

\* ------------------------------------------------------------------- state
VARIABLES
    file,       \* the lines of the file read so far (the header from the start)
    pos,        \* the stream cursor: the number of lines readline() returned
    pc,         \* the statement of read that runs next
    lines,      \* the list `lines` of the 11 header lines
    mline,      \* the position of the metadata loop in `lines`
    label_num,  \* the label lines read
    metadata,   \* the dict `metadata`: key text -> value
    num_gates,
    time, azimuth, elevation, pitch, roll,  \* the per-record buffers
    doppler, intensity, beta,               \* the per-record-per-gate buffers
    index,      \* the record index
    i,          \* the gate loop counter
    last_ind,
    dataset,    \* the local xr.Dataset
    exc,        \* the exception that ended the call, or NoExc
    result      \* the value read returned, or None

vars == <<file, pos, pc, lines, mline, label_num, metadata, num_gates,
          time, azimuth, elevation, pitch, roll, doppler, intensity, beta,
          index, i, last_ind, dataset, exc, result>>

buffers == <<time, azimuth, elevation, pitch, roll, doppler, intensity, beta>>
header_vars == <<lines, mline, label_num, metadata, num_gates>>

max_len == MaxLen

None == [none |-> TRUE]
NoExc == [type |-> "none", line |-> 0]
Unset == <<>>
EmptyDataset ==
    [range_gate |-> Unset, dtime |-> Unset, Azimuth |-> Unset, Elevation |-> Unset,
     Pitch |-> Unset, Roll |-> Unset, Doppler |-> Unset, Intensity |-> Unset,
     Beta |-> Unset, Timestamp |-> Unset, time |-> Unset, attrs |-> Unset]

Init ==
    /\ file \in Headers
    /\ pos = 0
    /\ pc = "read_header"
    /\ lines = <<>>
    /\ mline = 0
    /\ label_num = 0
    /\ metadata = <<>>
    /\ num_gates = 0
    /\ time = <<>> /\ azimuth = <<>> /\ elevation = <<>> /\ pitch = <<>> /\ roll = <<>>
    /\ doppler = <<>> /\ intensity = <<>> /\ beta = <<>>
    /\ index = 0
    /\ i = 0
    /\ last_ind = 0
    /\ dataset = None
    /\ exc = NoExc
    /\ result = None

\* raise: the call ends with the exception, nothing is returned.
Raise(type, line) ==
    /\ pc' = "raised"
    /\ exc' = [type |-> type, line |-> line]

Min(a, b) == IF a < b THEN a ELSE b
\* Python s[a:b] of a sequence.
Slice(s, a, b) == SubSeq(s, a + 1, Min(b, Len(s)))

\* ------------------------------------------------------------ header stage
\* Lines 46-47: lines.append(f.readline()), 11 times.
ReadHeaderLine ==
    /\ pc = "read_header"
    /\ lines' = Append(lines, file[pos + 1])
    /\ pos' = pos + 1
    /\ pc' = IF Len(lines) + 1 = 11 THEN "parse_meta" ELSE "read_header"
    /\ UNCHANGED <<file, mline, label_num, metadata, num_gates, buffers, index, i,
                   last_ind, dataset, exc, result>>

\* Mutant of HasStartTime: only the first field is compared with the marker.
HasStartTimeFirst(metaline) == metaline[1].s = KeyStart

\* 'Start time' in metaline
HasStartTime(metaline) == \E j \in 1..Len(metaline) : metaline[j].s = KeyStart

\* metadata[key] = value (a dict: the last assignment of a key wins)
DictSet(dict, key, value) ==
    [k \in DOMAIN dict \cup {key} |-> IF k = key THEN value ELSE dict[k]]

\* Lines 51-56: one iteration of the metadata loop.
ParseMetaLine ==
    /\ pc = "parse_meta"
    /\ LET metaline == lines[mline + 1].colon IN
        IF HasStartTime(metaline)
        THEN /\ metadata' = DictSet(metadata, KeyStart, Slice(metaline, 1, Len(metaline)))
             /\ mline' = mline + 1
             /\ pc' = IF mline + 1 = Len(lines) THEN "num_gates" ELSE "parse_meta"
             /\ exc' = exc
        ELSE IF Len(metaline) < 2
        THEN /\ Raise("IndexError", 56)
             /\ UNCHANGED <<metadata, mline>>
        ELSE /\ metadata' = DictSet(metadata, metaline[1].s, metaline[2])
             /\ mline' = mline + 1
             /\ pc' = IF mline + 1 = Len(lines) THEN "num_gates" ELSE "parse_meta"
             /\ exc' = exc
    /\ UNCHANGED <<file, pos, lines, label_num, num_gates, buffers, index, i,
                   last_ind, dataset, result>>

\* Line 59: num_gates = int(metadata['Number of gates'])
ConvertNumGates ==
    /\ pc = "num_gates"
    /\ IF KeyGates \notin DOMAIN metadata
       THEN Raise("KeyError", 59) /\ UNCHANGED num_gates
       ELSE IF ~int_ok(metadata[KeyGates])
       THEN Raise("ValueError", 59) /\ UNCHANGED num_gates
       ELSE /\ num_gates' = int(metadata[KeyGates])
            /\ pc' = "labels"
            /\ exc' = exc
    /\ UNCHANGED <<file, pos, lines, mline, label_num, metadata, buffers, index, i,
                   last_ind, dataset, result>>

\* Lines 62-63: f.readline(), 6 times, the lines dropped.
ReadLabelLine ==
    /\ pc = "labels"
    /\ pos' = pos + 1
    /\ label_num' = label_num + 1
    /\ pc' = IF label_num + 1 = 6 THEN "allocate" ELSE "labels"
    /\ UNCHANGED <<file, lines, mline, metadata, num_gates, buffers, index, i,
                   last_ind, dataset, exc, result>>

\* np.empty(n) filled with NaN, and np.empty((n, m)) filled with NaN.
NanVector(n) == [j \in 1..n |-> NaN]
NanMatrix(n, m) == [j \in 1..n |-> [g \in 1..m |-> NaN]]

\* Lines 69-89: the buffers. np.empty((max_len, num_gates)) raises ValueError
\* on a negative dimension (the vectors allocated before it are locals that
\* nothing reads again).
Allocate ==
    /\ pc = "allocate"
    /\ IF num_gates < 0
       THEN /\ Raise("ValueError", 76)
            /\ UNCHANGED <<buffers, index>>
       ELSE /\ time' = NanVector(max_len) /\ azimuth' = NanVector(max_len)
            /\ elevation' = NanVector(max_len) /\ pitch' = NanVector(max_len)
            /\ roll' = NanVector(max_len)
            /\ doppler' = NanMatrix(max_len, num_gates)
            /\ intensity' = NanMatrix(max_len, num_gates)
            /\ beta' = NanMatrix(max_len, num_gates)
            /\ index' = 0
            /\ pc' = "loop"
            /\ exc' = exc
    /\ UNCHANGED <<file, pos, header_vars, i, last_ind, dataset, result>>

\* ------------------------------------------------------------ record stage
\* readline() past the header: the environment supplies the next line.
\* Lines 97-101, `buf[index] = float(a[j])` for j = 0..4: the first of the
\* five statements that raises (1..5), or 0 when all five run.  The right
\* side is evaluated before the store.
ScalarStepFails(a, j, idx) ==
    \/ Len(a) < j
    \/ ~float_ok(a[j])
    \/ idx >= max_len
ScalarFail(a, idx) ==
    IF \E j \in 1..5 : ScalarStepFails(a, j, idx)
    THEN CHOOSE j \in 1..5 :
            /\ ScalarStepFails(a, j, idx)
            /\ \A h \in 1..(j - 1) : ~ScalarStepFails(a, h, idx)
    ELSE 0
\* The exception of statement j: a[j] out of range, float() of a word, or
\* the store past the end of the buffer.
ScalarExcType(a, j, idx) ==
    IF Len(a) < j THEN "IndexError"
    ELSE IF ~float_ok(a[j]) THEN "ValueError"
    ELSE "IndexError"

\* buf[idx] = float(a[j]) when statement j runs (no statement before it, nor
\* itself, raised).
ScalarStore(buf, a, j, idx, fail) ==
    IF fail = 0 \/ j < fail THEN [buf EXCEPT ![idx + 1] = float(a[j])] ELSE buf

\* Lines 92-101: read a line; an empty token list ends the loop, anything
\* else is the scalar line of the next group.
ReadScalar ==
    /\ pc = "loop"
    /\ \E line \in ScalarChoices :
        LET a == line.ws
            fail == ScalarFail(a, index)
        IN
        /\ file' = Append(file, line)
        /\ pos' = pos + 1
        /\ IF Len(a) = 0
           THEN /\ pc' = "trim"
                /\ exc' = exc
                /\ UNCHANGED <<time, azimuth, elevation, pitch, roll, i>>
           ELSE /\ time' = ScalarStore(time, a, 1, index, fail)
                /\ azimuth' = ScalarStore(azimuth, a, 2, index, fail)
                /\ elevation' = ScalarStore(elevation, a, 3, index, fail)
                /\ pitch' = ScalarStore(pitch, a, 4, index, fail)
                /\ roll' = ScalarStore(roll, a, 5, index, fail)
                /\ IF fail = 0
                   THEN /\ pc' = "gates"
                        /\ i' = 0
                        /\ exc' = exc
                   ELSE /\ Raise(ScalarExcType(a, fail, index), 96 + fail)
                        /\ i' = i
    /\ UNCHANGED <<header_vars, doppler, intensity, beta, index, last_ind, dataset, result>>

\* Lines 105-108 on the tokens b of a gate line of an n-gate group: the
\* first statement that raises (1 = `range_gate = int(b[0])`, 2..4 = the
\* stores of doppler, intensity, beta), or 0 when all four run.
GateStepFails(b, j, n) ==
    IF j = 1 THEN Len(b) < 1 \/ ~int_ok(b[1])
    ELSE \/ Len(b) < j
         \/ ~float_ok(b[j])
         \/ int(b[1]) >= n
         \/ int(b[1]) < 0 - n
\* Mutant of GateFail: a gate line of fewer than 4 tokens is skipped.
GateFailSkipShort(b, n) ==
    IF Len(b) < 4 THEN 0
    ELSE IF \E j \in 1..4 : GateStepFails(b, j, n)
    THEN CHOOSE j \in 1..4 :
            /\ GateStepFails(b, j, n)
            /\ \A h \in 1..(j - 1) : ~GateStepFails(b, h, n)
    ELSE 0

GateFail(b, n) ==
    IF \E j \in 1..4 : GateStepFails(b, j, n)
    THEN CHOOSE j \in 1..4 :
            /\ GateStepFails(b, j, n)
            /\ \A h \in 1..(j - 1) : ~GateStepFails(b, h, n)
    ELSE 0
GateExcType(b, j) ==
    IF Len(b) < j THEN "IndexError"
    ELSE IF j = 1 THEN "ValueError"
    ELSE IF ~float_ok(b[j]) THEN "ValueError"
    ELSE "IndexError"

\* Mutant of GateTarget: the stores use the loop counter.
GateTargetLoop(loop_i, range_gate) == loop_i

\* The gate index the stores of lines 106-108 use: the declared one, not
\* the loop counter.
GateTarget(loop_i, range_gate) == range_gate

\* numpy's resolution of an index g into an axis of length n: a negative
\* index counts from the end.
Column(g, n) == IF g < 0 THEN n + g ELSE g

\* m[idx, g] = float(b[j]) when statement j runs and the index is in range.
GateStore(m, b, j, idx, g, n, fail) ==
    IF (fail = 0 \/ j < fail) /\ Len(b) >= j /\ g < n /\ g >= 0 - n
    THEN [m EXCEPT ![idx + 1][Column(g, n) + 1] = float(b[j])]
    ELSE m

\* The indices declared by the i gate lines read so far in this group.
DeclaredSoFar == [h \in 1..i |-> int(file[Len(file) - i + h].ws[1])]

\* Lines 103-108: one iteration of the gate loop.
ReadGate ==
    /\ pc = "gates"
    /\ i < num_gates
    /\ \E line \in GateChoices(i, num_gates, DeclaredSoFar) :
        LET b == line.ws
            fail == GateFail(b, num_gates)
            range_gate == IF fail = 1 THEN 0 ELSE GateTarget(i, int(b[1]))
        IN
        /\ file' = Append(file, line)
        /\ pos' = pos + 1
        /\ doppler' = IF fail = 1 THEN doppler
                      ELSE GateStore(doppler, b, 2, index, range_gate, num_gates, fail)
        /\ intensity' = IF fail = 1 THEN intensity
                        ELSE GateStore(intensity, b, 3, index, range_gate, num_gates, fail)
        /\ beta' = IF fail = 1 THEN beta
                   ELSE GateStore(beta, b, 4, index, range_gate, num_gates, fail)
        /\ IF fail = 0
           THEN /\ i' = i + 1
                /\ pc' = pc
                /\ exc' = exc
           ELSE /\ Raise(GateExcType(b, fail), 104 + fail)
                /\ i' = i
    /\ UNCHANGED <<header_vars, time, azimuth, elevation, pitch, roll, index,
                   last_ind, dataset, result>>

\* Line 111: index += 1, after the last gate line of the group.
IncrementIndex ==
    /\ pc = "gates"
    /\ i >= num_gates
    /\ index' = index + 1
    /\ pc' = "loop"
    /\ UNCHANGED <<file, pos, header_vars, buffers, i, last_ind, dataset, exc, result>>

\* -------------------------------------------------------------------- trim
\* np.where(np.isnan(time))[0]: the indices (from 0) of the NaN entries.
NanIndices(t) == {j \in 0..(Len(t) - 1) : isnan(t[j + 1])}
SetMin(S) == CHOOSE x \in S : \A y \in S : x <= y

\* Line 119: last_ind = np.where(np.isnan(time))[0][0]; [0] of an empty
\* array raises IndexError.
Trim ==
    /\ pc = "trim"
    /\ IF NanIndices(time) = {}
       THEN Raise("IndexError", 119) /\ UNCHANGED last_ind
       ELSE /\ last_ind' = SetMin(NanIndices(time))
            /\ pc' = "assemble"
            /\ exc' = exc
    /\ UNCHANGED <<file, pos, header_vars, buffers, index, i, dataset, result>>

\* ---------------------------------------------------------------- assemble
\* buf[:n]
Prefix(buf, n) == SubSeq(buf, 1, Min(n, Len(buf)))
\* np.arange(n)
arange(n) == [j \in 1..n |-> j - 1]

\* The buffer line 135 stores as 'Beta'.
BetaSource == intensity

\* Lines 122-135: the dataset of the trimmed buffers.
Assemble ==
    /\ pc = "assemble"
    /\ dataset' = [EmptyDataset EXCEPT
                    !.range_gate = arange(num_gates),
                    !.dtime = Prefix(time, last_ind),
                    !.Azimuth = Prefix(azimuth, last_ind),
                    !.Elevation = Prefix(elevation, last_ind),
                    !.Pitch = Prefix(pitch, last_ind),
                    !.Roll = Prefix(roll, last_ind),
                    !.Doppler = Prefix(doppler, last_ind),
                    !.Intensity = Prefix(intensity, last_ind),
                    !.Beta = Prefix(BetaSource, last_ind)]
    /\ pc' = "time_axis"
    /\ UNCHANGED <<file, pos, header_vars, buffers, index, i, last_ind, exc, result>>

\* --------------------------------------------------------------- time axis
Digits == {"0", "1", "2", "3", "4", "5", "6", "7", "8", "9"}
AllDigits(cs, n) == Len(cs) = n /\ \A j \in 1..Len(cs) : cs[j] \in Digits

\* Lines 139-141: the year, month and day of the date text, by position.
StartDate(text) ==
    [year |-> Slice(Chars(text), 1, 5),
     month |-> Slice(Chars(text), 5, 7),
     day |-> Slice(Chars(text), 7, 9)]
\* np.datetime64 of '{year}-{month}-{day}T00:00:00.00' parses.
DateOk(date) ==
    AllDigits(date.year, 4) /\ AllDigits(date.month, 2) /\ AllDigits(date.day, 2)

Abs(x) == IF x < 0 THEN 0 - x ELSE x
\* Mutant of Microseconds: the count is rounded to the nearest microsecond.
MicrosecondsRounded(t) ==
    LET a == Abs(t.n) * 3600
        s == a \div t.d
        u == (((a % t.d) * 1000000) * 2 + t.d) \div (2 * t.d)
    IN IF t.n < 0 THEN [s |-> 0 - s, u |-> 0 - u] ELSE [s |-> s, u |-> u]

\* Line 150, int(3600 * 1e6 * t) of the rational t: the microseconds of t
\* hours, cut toward zero, as whole seconds s and microseconds u (the count
\* is s * 10^6 + u, both of the sign of t).
Microseconds(t) ==
    LET a == Abs(t.n) * 3600
        s == a \div t.d
        u == ((a % t.d) * 1000000) \div t.d
    IN IF t.n < 0 THEN [s |-> 0 - s, u |-> 0 - u] ELSE [s |-> s, u |-> u]

\* start_time + np.timedelta64(us, 'us'): midnight of the date plus the
\* offset.
Timestamp(date, t) == [date |-> date, offset |-> Microseconds(t)]

\* Lines 138-153: the timestamps of the records.
BuildTimeAxis ==
    /\ pc = "time_axis"
    /\ IF KeyStart \notin DOMAIN metadata
       THEN Raise("KeyError", 139) /\ UNCHANGED dataset
       ELSE IF Len(metadata[KeyStart]) = 0
       THEN Raise("IndexError", 139) /\ UNCHANGED dataset
       ELSE LET start_time == StartDate(metadata[KeyStart][1].s)
                dtimes == dataset.dtime
            IN IF ~DateOk(start_time)
               THEN Raise("ValueError", 146) /\ UNCHANGED dataset
               ELSE IF \E j \in 1..Len(dtimes) : isnan(dtimes[j])
               THEN Raise("ValueError", 150) /\ UNCHANGED dataset
               ELSE LET tt == [j \in 1..Len(dtimes) |-> Timestamp(start_time, dtimes[j])]
                    IN /\ dataset' = [dataset EXCEPT !.Timestamp = tt, !.time = tt]
                       /\ pc' = "attrs"
                       /\ exc' = exc
    /\ UNCHANGED <<file, pos, header_vars, buffers, index, i, last_ind, result>>

\* Lines 156-158: the attribute, and the return.
SaveAttrs ==
    /\ pc = "attrs"
    /\ IF KeyRgl \notin DOMAIN metadata
       THEN Raise("KeyError", 156) /\ UNCHANGED <<dataset, result>>
       ELSE IF ~float_ok(metadata[KeyRgl])
       THEN Raise("ValueError", 156) /\ UNCHANGED <<dataset, result>>
       ELSE /\ dataset' = [dataset EXCEPT !.attrs = float(metadata[KeyRgl])]
            /\ result' = dataset'
            /\ pc' = "done"
            /\ exc' = exc
    /\ UNCHANGED <<file, pos, header_vars, buffers, index, i, last_ind>>

Next ==
    \/ ReadHeaderLine
    \/ ParseMetaLine
    \/ ConvertNumGates
    \/ ReadLabelLine
    \/ Allocate
    \/ ReadScalar
    \/ ReadGate
    \/ IncrementIndex
    \/ Trim
    \/ Assemble
    \/ BuildTimeAxis
    \/ SaveAttrs

Spec == Init /\ [][Next]_vars

\* ================================================================== claims
\* The file as the claims see it: lines 1-11 the header, 12-17 the labels,
\* then groups of one scalar line and num_gates gate lines.
Ended == pc \in {"done", "raised"}
Returned == pc = "done"

HasField(key) == \E p \in 1..11 : file[p].colon[1].s = key
FieldTok(key) ==
    LET p == CHOOSE q \in 1..11 :
                /\ file[q].colon[1].s = key
                /\ \A h \in (q + 1)..11 : file[h].colon[1].s # key
    IN file[p].colon[2]
\* The header declares a positive integer `Number of gates`.
GatesPositive ==
    HasField(KeyGates) /\ int_ok(FieldTok(KeyGates)) /\ int(FieldTok(KeyGates)) > 0
DeclaredGates == int(FieldTok(KeyGates))
\* The header holds a numeric `Range gate length (m)`.
RglNumeric == HasField(KeyRgl) /\ float_ok(FieldTok(KeyRgl))

GroupSize == num_gates + 1
RecordPositions == 18..Len(file)
IsScalarPos(p) == (p - 18) % GroupSize = 0
\* The j-th gate line (j = 1..num_gates) of group r (from 0).
GateLineOf(r, j) == file[18 + r * GroupSize + j]

FiveFloats(a) == Len(a) >= 5 /\ \A j \in 1..5 : float_ok(a[j])
GateTokens(b) == Len(b) >= 4 /\ int_ok(b[1]) /\ \A j \in 2..4 : float_ok(b[j])

\* The file read so far is a whole well-formed file of k groups: a header
\* with a positive gate count, a numeric range gate length and a start
\* time, k groups of a scalar line of five numbers and DeclaredGates gate
\* lines with indices in range, and the terminating empty line.
WellFormedFile(k) ==
    /\ GatesPositive /\ RglNumeric /\ HasField(KeyStart)
    /\ Len(file) = 17 + k * (DeclaredGates + 1) + 1
    /\ file[Len(file)] = EmptyLine
    /\ \A p \in 18..(Len(file) - 1) :
        IF (p - 18) % (DeclaredGates + 1) = 0
        THEN FiveFloats(file[p].ws) /\ ~isnan(float(file[p].ws[1]))
        ELSE /\ GateTokens(file[p].ws)
             /\ int(file[p].ws[1]) \in 0..(DeclaredGates - 1)

\* C1 (as stated): for every well-formed file of k groups and N gates, read
\* returns a dataset whose time dimension has length k and whose range_gate
\* dimension has length N.
C1_DimensionsMatchInput ==
    \A k \in 0..(MaxLen + 1) :
        (Ended /\ WellFormedFile(k)) =>
            /\ Returned
            /\ Len(result.time) = k
            /\ Len(result.range_gate) = DeclaredGates

\* The gate line of group r that decides cell g: the last line of the group
\* declaring g.
DecidesCell(r, j, g) ==
    /\ GateTokens(GateLineOf(r, j).ws)
    /\ int(GateLineOf(r, j).ws[1]) = g
    /\ \A h \in (j + 1)..num_gates : int(GateLineOf(r, h).ws[1]) # g

\* C2 (as stated): in the returned dataset Doppler, Intensity and Beta at
\* [r, g] are the 2nd, 3rd and 4th token of the gate line of group r that
\* declares gate g.
C2_ChannelsCarriedUnchanged ==
    Returned =>
        \A r \in 0..(Len(result.time) - 1) : \A g \in 0..(num_gates - 1) :
            \A j \in 1..num_gates :
                DecidesCell(r, j, g) =>
                    /\ result.Doppler[r + 1][g + 1] = float(GateLineOf(r, j).ws[2])
                    /\ result.Intensity[r + 1][g + 1] = float(GateLineOf(r, j).ws[3])
                    /\ result.Beta[r + 1][g + 1] = float(GateLineOf(r, j).ws[4])

\* The gate lines of group r declare each of 0..num_gates-1 once.
IsPermutationGroup(r) ==
    /\ \A j \in 1..num_gates : GateTokens(GateLineOf(r, j).ws)
    /\ \A g \in 0..(num_gates - 1) :
        \E j \in 1..num_gates : int(GateLineOf(r, j).ws[1]) = g
AscendingGroup(r) ==
    \A j \in 1..num_gates : int(GateLineOf(r, j).ws[1]) = j - 1
\* The tokens of the line of group r that declares gate g.
LineDeclaring(r, g) ==
    GateLineOf(r, CHOOSE j \in 1..num_gates : int(GateLineOf(r, j).ws[1]) = g).ws

\* C3: in every decoded group whose gate lines declare exactly 0..N-1, in
\* any order, each cell g of the group's row of the doppler, intensity and
\* beta buffers holds the values of the line declaring g: the row is the
\* one the lines in ascending order give.
C3_ValuesStoredAtDeclaredGate ==
    \A r \in 0..(index - 1) :
        (num_gates > 0 /\ IsPermutationGroup(r)) =>
            \A g \in 0..(num_gates - 1) :
                /\ doppler[r + 1][g + 1] = float(LineDeclaring(r, g)[2])
                /\ intensity[r + 1][g + 1] = float(LineDeclaring(r, g)[3])
                /\ beta[r + 1][g + 1] = float(LineDeclaring(r, g)[4])
\* A decoded group of two or more gate lines that is not in ascending order.
C3_Witness ==
    \E r \in 0..(index - 1) :
        num_gates >= 2 /\ IsPermutationGroup(r) /\ ~AscendingGroup(r)

\* A gate line that declares a gate index outside [0, num_gates).
OutOfRangeGateLine(p) ==
    /\ ~IsScalarPos(p)
    /\ Len(file[p].ws) >= 1 /\ int_ok(file[p].ws[1])
    /\ int(file[p].ws[1]) \notin 0..(num_gates - 1)

\* C4 (as stated): once a gate line declaring an index outside
\* [0, num_gates) has been read, the call has failed in the record decoder
\* and returns nothing.
C4_OutOfRangeGateIsFatal ==
    \A p \in RecordPositions :
        OutOfRangeGateLine(p) =>
            pc = "raised" /\ exc.line \in 105..108 /\ result = None

\* C5 (as stated): a file with a valid header whose first line after the 17
\* header and label lines is empty does not make read return a dataset.
C5_NoRecordsIsAnError ==
    (/\ GatesPositive /\ RglNumeric /\ HasField(KeyStart)
     /\ Len(file) >= 18 /\ file[18] = EmptyLine) => ~Returned

\* A scalar line with fewer than 5 tokens; a gate line with fewer than 4,
\* the empty line (blank, or the end of the stream) included.
ShortRecordLine(p) ==
    IF IsScalarPos(p)
    THEN Len(file[p].ws) \in 1..4
    ELSE Len(file[p].ws) < 4

\* C6: once a scalar line of fewer than 5 tokens, or a gate-line position
\* holding fewer than 4 tokens, has been read, the call has failed with an
\* exception raised by the record decoder (lines 97-108), nothing is
\* returned, and no later line was read.
C6_ShortLineIsFatal ==
    \A p \in RecordPositions :
        ShortRecordLine(p) =>
            /\ pc = "raised"
            /\ exc.line \in 97..108
            /\ result = None
            /\ Len(file) = p /\ pos = p
\* A started group cut short by the end of the stream, after a decoded group.
C6_Witness ==
    /\ index >= 1
    /\ Len(file) > 18
    /\ ~IsScalarPos(Len(file))
    /\ file[Len(file)] = EmptyLine
    /\ pc = "raised"

\* C7 (as stated): a call that decoded as many groups as the buffers hold
\* (the record index reached the capacity) ends in the failure of the
\* decoder's store at the record index (line 97), never in another failure
\* or a returned dataset.
C7_CapacityReachedIsCapacityError ==
    (Ended /\ GatesPositive /\ index >= max_len) =>
        pc = "raised" /\ exc.line = 97

\* h1 <= h2 for rationals, and the order of two offsets.
RatLeq(h1, h2) == h1.n * h2.d <= h2.n * h1.d
OffsetLeq(o1, o2) == o1.s < o2.s \/ (o1.s = o2.s /\ o1.u <= o2.u)
\* off is h hours in microseconds cut toward zero: |off| <= |h| * 3600 *
\* 10^6 < |off| + 1, with the sign of h.
IsTruncatedHours(h, off) ==
    LET a == Abs(h.n) * 3600
        S == Abs(off.s)
        U == Abs(off.u)
    IN /\ S * h.d <= a /\ a < (S + 1) * h.d
       /\ U < 1000000
       /\ U * h.d <= (a - S * h.d) * 1000000
       /\ (a - S * h.d) * 1000000 < (U + 1) * h.d
       /\ (h.n >= 0 => (off.s >= 0 /\ off.u >= 0))
       /\ (h.n < 0 => (off.s <= 0 /\ off.u <= 0))
\* The date of the header "Start time:\t20210315 13:05:22.15".
HeaderDate ==
    [year |-> <<"2", "0", "2", "1">>, month |-> <<"0", "3">>, day |-> <<"1", "5">>]

\* C8: in a returned dataset the Timestamp of every record, and the time
\* coordinate, is midnight of the header's year/month/day plus the
\* record's decimal hours in microseconds cut toward zero (13.5 hours give
\* 13:30:00.000000; the 13:05:22.15 of the header is not added), and
\* non-decreasing hours give non-decreasing timestamps.
C8_TimestampIsMidnightPlusTruncatedHours ==
    Returned =>
        /\ Len(result.Timestamp) = Len(result.dtime)
        /\ result.time = result.Timestamp
        /\ \A r \in 1..Len(result.dtime) :
            /\ result.Timestamp[r].date = HeaderDate
            /\ IsTruncatedHours(result.dtime[r], result.Timestamp[r].offset)
            /\ result.dtime[r] = Num(27, 2) =>
                result.Timestamp[r].offset = [s |-> 13 * 3600 + 30 * 60, u |-> 0]
        /\ \A r1 \in 1..Len(result.dtime) : \A r2 \in r1..Len(result.dtime) :
            RatLeq(result.dtime[r1], result.dtime[r2]) =>
                OffsetLeq(result.Timestamp[r1].offset, result.Timestamp[r2].offset)
\* A returned dataset of two records, the first at a time whose microseconds
\* are not whole, the second at 13.5 hours.
C8_Witness ==
    /\ Returned
    /\ Len(result.dtime) = 2
    /\ result.dtime[1] = Num(-2, 7)
    /\ result.dtime[2] = Num(27, 2)

\* C9 (as stated): a header without a numeric `Range gate length (m)` or a
\* positive integer `Number of gates` makes the call fail; for the gate
\* count, before any record line is read.
C9_BadHeaderIsFatal ==
    /\ ~GatesPositive => (~Returned /\ Len(file) = 17 /\ pos <= 17)
    /\ ~RglNumeric => ~Returned

\* C10 (as stated): whenever read returns a dataset, the length every array
\* was trimmed to is the record index the decode loop reached.
C10_TrimLengthIsRecordIndex ==
    (Returned /\ GatesPositive) => (last_ind = index /\ Len(result.dtime) = index)

\* The call is past the header stage (lines 44-63): the buffers are being
\* allocated, or records are decoded, or a later statement ran.
PastHeader ==
    \/ pc \in {"allocate", "loop", "gates", "trim", "assemble", "time_axis", "attrs", "done"}
    \/ pc = "raised" /\ exc.line >= 69
\* The call ended in the header stage, by an exception of lines 56 or 59.
FailedInHeader == pc = "raised" /\ exc.line \in {56, 59}

\* What the claim says header line p puts into the mapping: a line one of
\* whose fields is 'Start time' its fields from index 1 on under 'Start
\* time', any other line its field 0 -> its field 1.
MarkerLine(p) == \E j \in 1..Len(file[p].colon) : file[p].colon[j].s = KeyStart
EntryKey(p) == IF MarkerLine(p) THEN KeyStart ELSE file[p].colon[1].s
EntryValue(p) == IF MarkerLine(p) THEN Tail(file[p].colon) ELSE file[p].colon[2]
\* The mapping holds the entries of lines 1..m, the last line of a key
\* deciding its value.
MappingOfLines(m) ==
    /\ DOMAIN metadata = {EntryKey(p) : p \in 1..m}
    /\ \A p \in 1..m :
        (\A q \in (p + 1)..m : EntryKey(q) # EntryKey(p)) =>
            metadata[EntryKey(p)] = EntryValue(p)

====
